---------------------------- MODULE Spec2Model ----------------------------
(***************************************************************************)
(* A model of src/src/main.rs: one invocation of `main` (the `gui`         *)
(* measurement cycle: reference time, capture dialog, minute selection,    *)
(* save_to, result dialog) and the measurements table that save_to         *)
(* maintains.                                                              *)
(*                                                                         *)
(* Units.  chrono keeps sub-second time in nanoseconds; the only           *)
(* nanosecond value the program builds itself is ms * 1_000_000, so the    *)
(* model keeps DateTime sub-seconds and the elapsed duration in            *)
(* milliseconds (one model millisecond = 1_000_000 chrono nanoseconds).    *)
(* The 32-bit NTP fraction is kept exactly, as two 16-bit limbs <<hi, lo>>, *)
(* because the model checker's integers are 32-bit signed.                 *)
(***************************************************************************)
EXTENDS Integers, Sequences, FiniteSets, TLC

VARIABLES
    pc,          \* position of `gui`
    args_sync,   \* Args.sync of this invocation
    ntp,         \* outcome of get_ntp_time: "pending", "ok", "err"
    ref_time,    \* NtpResult: [sec, frac], frac = <<hi, lo>>
    started,     \* `start = Utc::now()` has been executed
    ticks,       \* clock steps taken while the capture dialog is up
    elapsed,     \* click - start, in milliseconds
    trigger,     \* the event that ended the capture dialog
    click_dt,    \* the capture instant (DateTime)
    candidates,  \* the radio buttons of the minute dialog: [value, label]
    selection,   \* minute_group.selection()
    touched,     \* the operator changed the radio selection
    delta,       \* Option<i32> computed at line 169
    shown,       \* the dialogs whose event loop (siv.run) has been run
    db,          \* table measurements, in insertion order
    db0,         \* the table as this invocation found it
    save_result, \* what the last save_to returned: "none", "Ok", "Err"
    log,         \* the save_to calls made so far, with their outcome
    stdout       \* what save_to and gui have printed

vars == << pc, args_sync, ntp, ref_time, started, ticks, elapsed, trigger,
           click_dt, candidates, selection, touched, delta, shown, db, db0,
           save_result, log, stdout >>

guiVars == << pc, args_sync, ntp, ref_time, started, ticks, elapsed, trigger,
              click_dt, candidates, selection, touched, delta, shown, db0 >>

-----------------------------------------------------------------------------
(* Program constants *)

U16 == 2^16
I32Max == 2147483647
I32Min == (-2147483647) - 1
MillisPerSec == 1000
NanosPerMilli == 1000000
MinuteBefore == -60
MinuteOf == 0
MinuteAfter == 60

(* Bounds of the model *)

MaxTicks == 4
MaxCalls == 3

\* Clock steps (milliseconds) while the capture dialog waits for the operator.
TickSet == {250, 35500}

\* Reference seconds the time server may answer: 3598 is 00:59:58, 3605 is 01:00:05.
SecSet == {3598, 3605}

\* Reference fractions <<hi, lo>>: 0, 4294968 (1 ms), 2^31 (500 ms),
\* 2^32 - 2 (999 ms) and 2^32 - 1 (the largest u32).
FracSet == { <<0, 0>>, <<65, 35128>>, <<32768, 0>>, <<65535, 65534>>, <<65535, 65535>> }

\* Inputs of the direct save_to calls.
TsSet == {3598, 3605}
DeltaSet == {-65, -5, 2}

None == [some |-> FALSE, val |-> 0]
Some(v) == [some |-> TRUE, val |-> v]
NoTime == [secs |-> 0, millis |-> 0]
NoRef == [sec |-> 0, frac |-> <<0, 0>>]

\* Stores an earlier invocation can have left behind: the empty table, and the
\* table after one measurement (reference 3598 s, click at once, "minute of").
InitStores == { <<>>, << [ts |-> 3598, diff |-> -58, sync |-> TRUE] >> }

-----------------------------------------------------------------------------
(* Pure functions *)

\* main.rs:134  ms = (sec_fraction as u64) * 1000 / u32::MAX as u64.
\* The product is formed in base 2^16: frac * 1000 = l2*2^32 + l1*2^16 + l0
\* with l2 <= 999.  Since 2^32 = (2^32 - 1) + 1, the product is
\* l2*(2^32 - 1) + (l2 + R) with R = l1*2^16 + l0 < 2^32, and l2 + R is below
\* 2*(2^32 - 1); so the quotient is l2, plus one exactly when
\* R >= 2^32 - 1 - l2, i.e. l1 = 65535 and l0 >= 65535 - l2.
MsOfFraction(frac) ==
    LET hi == frac[1]
        lo == frac[2]
        p0 == lo * 1000
        l0 == p0 % U16
        p1 == hi * 1000 + (p0 \div U16)
        l1 == p1 % U16
        l2 == p1 \div U16
    IN  IF l1 = U16 - 1 /\ l0 >= (U16 - 1) - l2 THEN l2 + 1 ELSE l2

\* main.rs:135-138  Utc.timestamp_opt(sec, (ms * 1_000_000) as u32).single():
\* the set of results the chrono in the build can give.  Below one second of
\* nanoseconds there is one result.  From 1_000_000_000 up to 1_999_999_999
\* chrono reads the value as a leap second: every release accepts it when
\* sec % 60 = 59, older releases accept it for every sec, newer ones answer
\* None otherwise.
NoneTime == [some |-> FALSE, val |-> NoTime]
SomeTime(t) == [some |-> TRUE, val |-> t]
TimestampOpt(sec, ms) ==
    LET nsec == ms * NanosPerMilli
        dt == SomeTime([secs |-> sec, millis |-> ms])
    IN  IF nsec < 1000 * NanosPerMilli THEN {dt}
        ELSE IF nsec < 2000 * NanosPerMilli
             THEN IF sec % 60 = 59 THEN {dt} ELSE {dt, NoneTime}
             ELSE {NoneTime}

\* main.rs:139  checked_add_signed(duration), for a duration e >= 0 (ms).
\* A DateTime inside a leap second (millis >= 1000) leaves it when e reaches
\* the rest of that second, and stays in it otherwise.
AddMillis(dt, e) ==
    LET t == dt.millis + e
    IN  [secs |-> dt.secs + (t \div MillisPerSec), millis |-> t % MillisPerSec]

CheckedAddSigned(dt, e) ==
    IF dt.millis >= MillisPerSec
    THEN LET rfrac == 2 * MillisPerSec - dt.millis
         IN  IF e >= rfrac
             THEN AddMillis([secs |-> dt.secs + 1, millis |-> 0], e - rfrac)
             ELSE [secs |-> dt.secs, millis |-> dt.millis + e]
    ELSE AddMillis(dt, e)

\* click_dt.second() and click_dt.minute()
Second(dt) == dt.secs % 60
Minute(dt) == (dt.secs \div 60) % 60

\* main.rs:144-160  the three radio buttons, in the order they are added.
Candidates(dt) ==
    << [value |-> MinuteBefore, label |-> (Minute(dt) + 59) % 60],
       [value |-> MinuteOf,     label |-> Minute(dt)],
       [value |-> MinuteAfter,  label |-> (Minute(dt) + 1) % 60] >>

\* RadioGroup: the first button added is the selected one.
DefaultSelection(cands) == cands[1].value

\* CheckedSub with its operands exchanged.
CheckedSubSwapped(a, b) ==
    IF b - a >= I32Min /\ b - a <= I32Max THEN Some(b - a) ELSE None

\* main.rs:169-171  i32::checked_sub
CheckedSub(a, b) ==
    IF a - b >= I32Min /\ a - b <= I32Max THEN Some(a - b) ELSE None

-----------------------------------------------------------------------------
(* save_to, main.rs:77-115 *)

HasTs(store, ts) == \E i \in DOMAIN store : store[i].ts = ts

\* EffectiveSync without the bootstrap rule.
EffectiveSyncAsPassed(sync, n) == sync

\* main.rs:104  let sync = sync || n == 0
EffectiveSync(sync, n) == sync \/ n = 0

\* The effect of one call.  storageOk = FALSE is a failure of open, CREATE
\* TABLE or the count query, each of which returns early with `?`.  The
\* INSERT fails on a duplicate primary key; its error is printed (line 111)
\* and the call goes on to return Ok(()) (line 114).
SaveTo(store, ts, d, sync, storageOk) ==
    IF ~storageOk
    THEN [db |-> store, result |-> "Err", outcome |-> "failed", out |-> << >>]
    ELSE LET n == Len(store)
             rec == [ts |-> ts, diff |-> d, sync |-> EffectiveSync(sync, n)]
         IN  IF HasTs(store, ts)
             THEN [db |-> store, result |-> "Ok", outcome |-> "rejected",
                   out |-> << "Error" >>]
             ELSE [db |-> Append(store, rec), result |-> "Ok",
                   outcome |-> "inserted", out |-> << "Updated" >>]

Call(ts, d, sync, outcome) ==
    [ts |-> ts, delta |-> d, sync |-> sync, outcome |-> outcome]

-----------------------------------------------------------------------------
(* One invocation of main: gui, main.rs:117-195 *)

Init ==
    /\ pc = "start"
    /\ args_sync \in BOOLEAN
    /\ ntp = "pending"
    /\ ref_time = NoRef
    /\ started = FALSE
    /\ ticks = 0
    /\ elapsed = 0
    /\ trigger = "none"
    /\ click_dt = NoTime
    /\ candidates = << >>
    /\ selection = 0
    /\ touched = FALSE
    /\ delta = None
    /\ shown = {}
    /\ db \in InitStores
    /\ db0 = db
    /\ save_result = "none"
    /\ log = << >>
    /\ stdout = << >>

storeVars == << db, save_result, log, stdout >>
dialogVars == << click_dt, candidates, selection, touched, delta >>

\* main.rs:127-129  get_ntp_time answers; `start` is taken and the capture
\* dialog's event loop is entered.
NtpOk ==
    /\ pc = "start"
    /\ \E sec \in SecSet, frac \in FracSet :
           ref_time' = [sec |-> sec, frac |-> frac]
    /\ ntp' = "ok"
    /\ started' = TRUE
    /\ shown' = shown \cup {"capture"}
    /\ pc' = "capture"
    /\ UNCHANGED << args_sync, ticks, elapsed, trigger, db0 >>
    /\ UNCHANGED dialogVars
    /\ UNCHANGED storeVars

\* NtpFail with the error dropped instead of returned: gui goes on to the
\* capture dialog.
NtpFailIgnored ==
    /\ pc = "start"
    /\ ntp' = "err"
    /\ started' = TRUE
    /\ shown' = shown \cup {"capture"}
    /\ pc' = "capture"
    /\ UNCHANGED << args_sync, ref_time, ticks, elapsed, trigger, db0 >>
    /\ UNCHANGED dialogVars
    /\ UNCHANGED storeVars

\* main.rs:127  get_ntp_time returns Err (send or receive failed, or nothing
\* arrived within the 2 s read timeout): `?` returns from gui.
NtpFail ==
    /\ pc = "start"
    /\ ntp' = "err"
    /\ pc' = "aborted"
    /\ UNCHANGED << args_sync, ref_time, started, ticks, elapsed, trigger,
                    shown, db0 >>
    /\ UNCHANGED dialogVars
    /\ UNCHANGED storeVars

\* main.rs:198-201  the socket cannot be bound or configured: expect panics.
SocketPanic ==
    /\ pc = "start"
    /\ pc' = "panicked"
    /\ UNCHANGED << args_sync, ntp, ref_time, started, ticks, elapsed,
                    trigger, shown, db0 >>
    /\ UNCHANGED dialogVars
    /\ UNCHANGED storeVars

\* main.rs:129  time passes while siv.run() waits for an event; the event
\* loop has no timeout of its own.
Tick ==
    /\ pc = "capture"
    /\ ticks < MaxTicks
    /\ \E d \in TickSet : elapsed' = elapsed + d
    /\ ticks' = ticks + 1
    /\ UNCHANGED << pc, args_sync, ntp, ref_time, started, trigger, shown,
                    db0 >>
    /\ UNCHANGED dialogVars
    /\ UNCHANGED storeVars

\* main.rs:129-167  an event quits the capture dialog (the "12" button, or
\* Esc through the global callback: both call quit); the capture instant is
\* computed and the minute dialog is put up and run.
EndCapture(ev) ==
    /\ pc = "capture"
    /\ trigger' = ev
    /\ \E t \in TimestampOpt(ref_time.sec, MsOfFraction(ref_time.frac)) :
           IF t.some
           THEN /\ click_dt' = CheckedAddSigned(t.val, elapsed)
                /\ candidates' = Candidates(click_dt')
                /\ selection' = DefaultSelection(candidates')
                /\ shown' = shown \cup {"select"}
                /\ pc' = "select"
           ELSE /\ pc' = "panicked"
                /\ UNCHANGED << click_dt, candidates, selection, shown >>
    /\ UNCHANGED << args_sync, ntp, ref_time, started, ticks, elapsed,
                    touched, delta, db0 >>
    /\ UNCHANGED storeVars

PressTwelve == EndCapture("twelve")

EscCapture == EndCapture("esc")

\* The operator picks one of the three radio buttons.
ChooseMinute ==
    /\ pc = "select"
    /\ \E i \in DOMAIN candidates : selection' = candidates[i].value
    /\ touched' = TRUE
    /\ UNCHANGED << pc, args_sync, ntp, ref_time, started, ticks, elapsed,
                    trigger, click_dt, candidates, delta, shown, db0 >>
    /\ UNCHANGED storeVars

\* main.rs:167-192  the minute dialog is quit (the "Ok" button, or Esc: both
\* call quit); delta is computed and, when defined, saved and shown.
EndSelect ==
    /\ pc = "select"
    /\ delta' = CheckedSub(selection, Second(click_dt))
    /\ IF delta'.some
       THEN \E storageOk \in BOOLEAN :
              LET r == SaveTo(db, ref_time.sec, delta'.val, args_sync, storageOk)
              IN  /\ db' = r.db
                  /\ save_result' = r.result
                  /\ log' = Append(log, Call(ref_time.sec, delta'.val,
                                             args_sync, r.outcome))
                  /\ stdout' = IF r.result = "Err"
                               THEN stdout \o r.out \o << "An error occured" >>
                               ELSE stdout \o r.out
                  /\ shown' = shown \cup {"result"}
                  /\ pc' = "result"
       ELSE /\ pc' = "done"
            /\ UNCHANGED << shown, db, save_result, log, stdout >>
    /\ UNCHANGED << args_sync, ntp, ref_time, started, ticks, elapsed,
                    trigger, click_dt, candidates, selection, touched, db0 >>

\* main.rs:189-194  the result dialog is quit; gui returns Ok(()).
CloseResult ==
    /\ pc = "result"
    /\ pc' = "done"
    /\ UNCHANGED << args_sync, ntp, ref_time, started, ticks, elapsed,
                    trigger, shown, db0 >>
    /\ UNCHANGED dialogVars
    /\ UNCHANGED storeVars

Next ==
    \/ NtpOk
    \/ NtpFail
    \/ SocketPanic
    \/ Tick
    \/ PressTwelve
    \/ EscCapture
    \/ ChooseMinute
    \/ EndSelect
    \/ CloseResult

Spec == Init /\ [][Next]_vars

-----------------------------------------------------------------------------
(* save_to called directly, any arguments, on a store that starts empty *)

InitStore ==
    /\ pc = "start"
    /\ args_sync = FALSE
    /\ ntp = "pending"
    /\ ref_time = NoRef
    /\ started = FALSE
    /\ ticks = 0
    /\ elapsed = 0
    /\ trigger = "none"
    /\ click_dt = NoTime
    /\ candidates = << >>
    /\ selection = 0
    /\ touched = FALSE
    /\ delta = None
    /\ shown = {}
    /\ db = << >>
    /\ db0 = db
    /\ save_result = "none"
    /\ log = << >>
    /\ stdout = << >>

SaveToCall ==
    /\ Len(log) < MaxCalls
    /\ \E ts \in TsSet, d \in DeltaSet, sync \in BOOLEAN, storageOk \in BOOLEAN :
           LET r == SaveTo(db, ts, d, sync, storageOk)
           IN  /\ db' = r.db
               /\ save_result' = r.result
               /\ log' = Append(log, Call(ts, d, sync, r.outcome))
               /\ stdout' = stdout \o r.out
    /\ UNCHANGED guiVars

NextStore == SaveToCall

SpecStore == InitStore /\ [][NextStore]_vars

-----------------------------------------------------------------------------
(* Properties *)

\* The spec's maxWait (70 seconds), in milliseconds.
MaxWaitMs == 70 * MillisPerSec

Inserted == SelectSeq(log, LAMBDA c : c.outcome = "inserted")
LastCall == log[Len(log)]
Captured == pc \in {"select", "result", "done"}
Resolved == pc \in {"result", "done"}
NewRecords == { i \in DOMAIN db : i > Len(db0) }

\* C1: starting from an empty table, after any sequence of save_to calls the
\* records are those of the calls that inserted, in order; the first one has
\* sync = TRUE whatever the caller passed, and a later one has sync = TRUE
\* only if its caller passed TRUE.
C1_BootstrapSync ==
    /\ Len(db) = Len(Inserted)
    /\ db # << >> => db[1].sync = TRUE
    /\ \A i \in DOMAIN db : i > 1 => (db[i].sync => Inserted[i].sync)

C1_Witness ==
    /\ Len(db) >= 2
    /\ ~Inserted[1].sync /\ db[1].sync
    /\ ~Inserted[2].sync /\ ~db[2].sync

\* C2: a save_to call whose ts is already in the table leaves the table as it
\* was and returns a storage error to its caller.
C2_DuplicateIsStorageError ==
    [][ (Len(log') = Len(log) + 1 /\ HasTs(db, log'[Len(log')].ts))
            => (db' = db /\ save_result' = "Err") ]_vars

\* C3: every offset this cycle persists lies in (-30, +30].
C3_PersistedOffsetWithin30 ==
    \A i \in NewRecords : db[i].diff > -30 /\ db[i].diff <= 30

\* C4: a capture dialog ended by Escape leads to no save_to call and no
\* record.
C4_EscapeWritesNothing ==
    trigger = "esc" => (log = << >> /\ db = db0)

\* C5: unless get_ntp_time has succeeded, no dialog's event loop has been
\* run, the session start has not been taken, and save_to has not been
\* called; the session start is only ever taken with the reference time in
\* hand.
C5_NoReferenceNoSession ==
    /\ ntp # "ok" => (shown = {} /\ ~started /\ log = << >> /\ db = db0)
    /\ started => ntp = "ok"

C5_Witness == pc = "aborted" /\ ntp = "err" /\ shown = {}

\* C6: the capture dialog is not still waiting once maxWait has passed since
\* the session start, and a session that lasted longer writes no record.
C6_CaptureEndsByMaxWait ==
    /\ pc = "capture" => elapsed <= MaxWaitMs
    /\ elapsed > MaxWaitMs => (log = << >> /\ db = db0)

\* C7: the ts of the record this cycle persists is the capture instant's
\* whole seconds (the reference seconds with the elapsed time added).
C7_TsIsCaptureSecond ==
    Resolved => \A i \in NewRecords : db[i].ts = click_dt.secs

\* C8: the offset is always defined and equals choice - capture second (0 and
\* 5 give -5, +60 and 58 give 2); it is what save_to is given; an untouched
\* selection is the first candidate, -60.
C8_InteractiveOffset ==
    /\ Resolved =>
         /\ delta.some
         /\ selection \in {MinuteBefore, MinuteOf, MinuteAfter}
         /\ delta.val + Second(click_dt) = selection
         /\ (selection = MinuteOf /\ Second(click_dt) = 5) => delta.val = -5
         /\ (selection = MinuteAfter /\ Second(click_dt) = 58) => delta.val = 2
         /\ LastCall.delta = delta.val
    /\ (Captured /\ ~touched) => selection = MinuteBefore

C8_Witness ==
    /\ pc = "result"
    /\ touched
    /\ selection = MinuteAfter
    /\ Second(click_dt) = 58
    /\ delta = Some(2)

\* C9: the capture instant's second count is
\* seconds + floor((ms + elapsed_ms) / 1000), ms the converted fraction.
C9_CaptureSecond ==
    Captured =>
        click_dt.secs = ref_time.sec
            + ((MsOfFraction(ref_time.frac) + elapsed) \div MillisPerSec)

\* C10: once the reference time has been converted, its millisecond value is
\* in 0..999, the nanosecond field is below 1_000_000_000, and the conversion
\* has not failed.
C10_MillisBelowSecond ==
    trigger # "none" =>
        /\ MsOfFraction(ref_time.frac) \in 0 .. 999
        /\ MsOfFraction(ref_time.frac) * NanosPerMilli < 1000 * NanosPerMilli
        /\ pc # "panicked"

=============================================================================
